---- MODULE Spec2Model ----
(***************************************************************************)
(* Model of detection/Votenet/matterport/meta_data/object_property.py:     *)
(* the per-scan export (read_aggregation, get_id_to_label,                 *)
(* read_segmentation, the two labelling passes, the box loop and the fold  *)
(* into prop_dict) and the batch driver of __main__ (the loop over the     *)
(* scans with its bare except, and the reduction of the lists to means).   *)
(*                                                                         *)
(* Python lists are objects: read_aggregation stores the same list object  *)
(* under object_id_to_segs and label_to_segs, so the model keeps a heap of *)
(* list objects and the two dicts hold references into it.  A dict is a    *)
(* record [keys, ref]: keys is the insertion order Python iterates in.     *)
(***************************************************************************)
EXTENDS Integers, Sequences, FiniteSets, TLC

\* ------------------------------------------------------------- bounds
MaxScans == 2          \* scans the driver loops over
MaxGroups == 3         \* segGroups of one aggregation file
MaxSegs == 2           \* segments listed by one segGroup
NumVerts == 2          \* vertices of one scan
MaxZ == 1              \* z coordinates are 0..MaxZ
MaxDim == 2            \* side lengths of a fitted rectangle are 1..MaxDim

\* ------------------------------------------------------------- helpers
Range(s) == {s[i] : i \in DOMAIN s}

Last(s) == s[Len(s)]

EmptyMap == <<>>

RECURSIVE Sum(_)
Sum(s) == IF s = <<>> THEN 0 ELSE s[1] + Sum(Tail(s))

RECURSIVE GCD(_, _)
GCD(a, b) == IF b = 0 THEN a ELSE GCD(b, a % b)

SetMin(S) == CHOOSE x \in S : \A y \in S : x <= y

SetMax(S) == CHOOSE x \in S : \A y \in S : x >= y

\* np.mean of a list: the sum over the length, kept as a reduced fraction
\* <<numerator, denominator>>; the mean of an empty list is nan.
Mean(s) ==
    IF s = <<>> THEN <<"nan">>
    ELSE LET t == Sum(s)
             g == GCD(t, Len(s))
         IN  <<t \div g, Len(s) \div g>>

\* ------------------------------------------------------------- inputs
Labels == {"a", "b", "u"}

\* The table read from category_mapping.tsv: raw category -> ModelNet40 id,
\* 0 for a category the table does not map.
label_map == [l \in Labels |-> CASE l = "a" -> 1 [] l = "b" -> 2 [] OTHER -> 0]

SegIds == 1..NumVerts

SegLists(n) == UNION {[1..k -> SegIds] : k \in 0..n}

\* The segGroups of an aggregation file with n groups: objectIds are unique,
\* ascending or descending in annotation order.
GroupSeqs(n, segLists, orders) ==
    UNION {
        {[i \in 1..n |-> [objectId |-> IF up THEN i - 1 ELSE n - i,
                          label |-> ls[i], segments |-> ss[i]]] :
            ls \in [1..n -> Labels], ss \in [1..n -> segLists]}
        : up \in (IF n >= 2 THEN orders ELSE {TRUE})}

NoScan == [files |-> "none", segGroups |-> <<>>, segIndices |-> <<>>, z |-> <<>>]

\* A scan directory whose three files exist.
ScanFiles(segLists, orders, segIdx, zs) ==
    {[files |-> "ok", segGroups |-> g, segIndices |-> si, z |-> z] :
        g \in UNION {GroupSeqs(n, segLists, orders) : n \in 0..MaxGroups},
        si \in segIdx, z \in zs}

\* A scan directory with one of its files missing.
BrokenScans ==
    {[files |-> f, segGroups |-> <<>>, segIndices |-> <<>>, z |-> <<>>] :
        f \in {"no_mesh", "no_agg", "no_seg"}}

FilesExist(s) == s.files = "ok"

\* ------------------------------------------------------------- state
VARIABLES
    pc,                 \* where the driver / export is
    scan,               \* the files of the scan being processed (scan_name)
    scans_run,          \* iterations of the driver's loop so far
    stdout,             \* what the driver printed
    id_to_label,        \* export: get_id_to_label's dict
    object_id_to_segs,  \* export: dict object id -> list reference
    label_to_segs,      \* export: dict label -> list reference
    heap,               \* export: the list objects json.load created
    seg_to_verts,       \* export: dict segment id -> vertex indices
    num_verts,          \* export: number of vertices
    label_ids,          \* export: per-vertex semantic array
    instance_ids,       \* export: per-vertex instance array
    obj_idx,            \* export: position of the box loop in the dict
    last_box,           \* export: the box the loop body computed last
    prop_dict,          \* the accumulator object40_property
    prop_start,         \* history: prop_dict when the scan started
    last_failure,       \* history: why export raised last ("none" after a return)
    boxes_log           \* history: the boxes folded into prop_dict

vars == <<pc, scan, scans_run, stdout, id_to_label, object_id_to_segs,
          label_to_segs, heap, seg_to_verts, num_verts, label_ids,
          instance_ids, obj_idx, last_box, prop_dict, prop_start, last_failure,
          boxes_log>>

EmptyDict == [keys |-> <<>>, ref |-> EmptyMap]

NoBox == [obj_id |-> 0, category |-> 0, num_point |-> 0, dx |-> 0, dy |-> 0, dz |-> 0]

\* ------------------------------------------------------------- read_aggregation
DictSet(d, k, v) ==
    [keys |-> IF k \in Range(d.keys) THEN d.keys ELSE Append(d.keys, k),
     ref |-> [x \in (DOMAIN d.ref) \cup {k} |-> IF x = k THEN v ELSE d.ref[x]]]

\* A variant that extends the new group's list with the label's list and
\* stores the new list under the label.
RECURSIVE AggLoopExtendNew(_, _, _)
AggLoopExtendNew(groups, i, st) ==
    IF i > Len(groups) THEN st
    ELSE LET g == groups[i]
             o2s == DictSet(st.o2s, g.objectId + 1, i)
         IN  IF g.label \in Range(st.l2s.keys)
             THEN AggLoopExtendNew(groups, i + 1,
                    [o2s |-> o2s,
                     l2s |-> DictSet(st.l2s, g.label, i),
                     heap |-> [st.heap EXCEPT ![i] = @ \o st.heap[st.l2s.ref[g.label]]]])
             ELSE AggLoopExtendNew(groups, i + 1,
                    [o2s |-> o2s, l2s |-> DictSet(st.l2s, g.label, i), heap |-> st.heap])

\* The loop of read_aggregation from group i on.  The list object of group i
\* is heap[i]; extend() changes the list object the label refers to.
RECURSIVE AggLoop(_, _, _)
AggLoop(groups, i, st) ==
    IF i > Len(groups) THEN st
    ELSE LET g == groups[i]
             o2s == DictSet(st.o2s, g.objectId + 1, i)
         IN  IF g.label \in Range(st.l2s.keys)
             THEN AggLoop(groups, i + 1,
                    [o2s |-> o2s,
                     l2s |-> st.l2s,
                     heap |-> [st.heap EXCEPT ![st.l2s.ref[g.label]] = @ \o st.heap[i]]])
             ELSE AggLoop(groups, i + 1,
                    [o2s |-> o2s, l2s |-> DictSet(st.l2s, g.label, i), heap |-> st.heap])

AggStart(groups) ==
    [o2s |-> EmptyDict, l2s |-> EmptyDict,
     heap |-> [i \in 1..Len(groups) |-> groups[i].segments]]

ReadAggregationExtendNew(groups) == AggLoopExtendNew(groups, 1, AggStart(groups))

read_aggregation(groups) == AggLoop(groups, 1, AggStart(groups))

\* get_id_to_label: object id -> label, the last group of an id wins.
get_id_to_label(groups) ==
    [o \in {groups[i].objectId + 1 : i \in DOMAIN groups} |->
        LET i == SetMax({j \in DOMAIN groups : groups[j].objectId + 1 = o})
        IN  groups[i].label]

\* read_segmentation: segment id -> its vertex indices in ascending order
\* (vertex indices are 1-based here, 0-based in the code).
read_segmentation(segIndices) ==
    [s \in Range(segIndices) |->
        LET RECURSIVE Collect(_)
            Collect(i) == IF i > Len(segIndices) THEN <<>>
                          ELSE IF segIndices[i] = s THEN <<i>> \o Collect(i + 1)
                          ELSE Collect(i + 1)
        IN  Collect(1)]

\* The list a dict entry refers to, as it is when the dict is read.
ListOf(d, h, k) == h[d.ref[k]]

\* arr[verts] = value
Assign(arr, verts, value) ==
    [v \in DOMAIN arr |-> IF v \in Range(verts) THEN value ELSE arr[v]]

\* ------------------------------------------------------------- export: labelling
\* A variant whose lookup of a missing segment ends the loop over the list.
RECURSIVE LabelSegsBreak(_, _, _, _, _)
LabelSegsBreak(arr, segs, j, s2v, label_id) ==
    IF j > Len(segs) THEN arr
    ELSE IF segs[j] \notin DOMAIN s2v THEN arr
    ELSE LabelSegsBreak(Assign(arr, s2v[segs[j]], label_id), segs, j + 1, s2v, label_id)

\* for seg in segs: label_ids[seg_to_verts[seg]] = label_id, a segment the
\* segmentation does not hold is skipped (try / except: continue).
RECURSIVE LabelSegs(_, _, _, _, _)
LabelSegs(arr, segs, j, s2v, label_id) ==
    IF j > Len(segs) THEN arr
    ELSE IF segs[j] \notin DOMAIN s2v THEN LabelSegs(arr, segs, j + 1, s2v, label_id)
    ELSE LabelSegs(Assign(arr, s2v[segs[j]], label_id), segs, j + 1, s2v, label_id)

RECURSIVE LabelLoop(_, _, _, _, _)
LabelLoop(arr, l2s, h, k, s2v) ==
    IF k > Len(l2s.keys) THEN arr
    ELSE LET label == l2s.keys[k]
         IN  LabelLoop(LabelSegs(arr, ListOf(l2s, h, label), 1, s2v, label_map[label]),
                       l2s, h, k + 1, s2v)

\* The first pass of export: the per-vertex semantic array.
LabelPass(l2s, h, s2v, n) == LabelLoop([v \in 1..n |-> 0], l2s, h, 1, s2v)

\* A variant that stamps the object id whatever the semantic id is.
RECURSIVE InstSegsNoProbe(_, _, _, _, _, _)
InstSegsNoProbe(arr, segs, j, s2v, lab, object_id) ==
    IF j > Len(segs) THEN arr
    ELSE IF segs[j] \notin DOMAIN s2v
         THEN InstSegsNoProbe(arr, segs, j + 1, s2v, lab, object_id)
    ELSE InstSegsNoProbe(Assign(arr, s2v[segs[j]], object_id),
                         segs, j + 1, s2v, lab, object_id)

\* for seg in segs: the vertices of seg get 0 when the first of them has
\* semantic id 0, the object id otherwise; a missing segment is skipped.
RECURSIVE InstSegs(_, _, _, _, _, _)
InstSegs(arr, segs, j, s2v, lab, object_id) ==
    IF j > Len(segs) THEN arr
    ELSE IF segs[j] \notin DOMAIN s2v
         THEN InstSegs(arr, segs, j + 1, s2v, lab, object_id)
    ELSE LET verts == s2v[segs[j]]
             value == IF lab[verts[1]] = 0 THEN 0 ELSE object_id
         IN  InstSegs(Assign(arr, verts, value), segs, j + 1, s2v, lab, object_id)

RECURSIVE InstLoop(_, _, _, _, _, _)
InstLoop(arr, o2s, h, k, s2v, lab) ==
    IF k > Len(o2s.keys) THEN arr
    ELSE LET object_id == o2s.keys[k]
         IN  InstLoop(InstSegs(arr, ListOf(o2s, h, object_id), 1, s2v, lab, object_id),
                      o2s, h, k + 1, s2v, lab)

\* The vertices of all the segments of a list that the segmentation holds.
RECURSIVE Gather(_, _, _)
Gather(segs, j, s2v) ==
    IF j > Len(segs) THEN <<>>
    ELSE IF segs[j] \notin DOMAIN s2v THEN Gather(segs, j + 1, s2v)
    ELSE s2v[segs[j]] \o Gather(segs, j + 1, s2v)

\* A variant that decides once per instance, on its first gathered vertex.
RECURSIVE InstLoopPerInstance(_, _, _, _, _, _)
InstLoopPerInstance(arr, o2s, h, k, s2v, lab) ==
    IF k > Len(o2s.keys) THEN arr
    ELSE LET object_id == o2s.keys[k]
             verts == Gather(ListOf(o2s, h, object_id), 1, s2v)
             value == IF lab[verts[1]] = 0 THEN 0 ELSE object_id
         IN  InstLoopPerInstance(IF verts = <<>> THEN arr ELSE Assign(arr, verts, value),
                                 o2s, h, k + 1, s2v, lab)

InstancePassPerInstance(o2s, h, s2v, lab, n) ==
    InstLoopPerInstance([v \in 1..n |-> 0], o2s, h, 1, s2v, lab)

\* The second pass of export: the per-vertex instance array.
InstancePass(o2s, h, s2v, lab, n) == InstLoop([v \in 1..n |-> 0], o2s, h, 1, s2v, lab)

\* ------------------------------------------------------------- export: boxes
\* The vertices whose instance id is obj_id (instance_ids == obj_id).
ObjVerts(inst, obj_id) == {v \in DOMAIN inst : inst[v] = obj_id}

\* dz = zmax - zmin over the points of the instance.
Height(z, verts) == SetMax({z[v] : v \in verts}) - SetMin({z[v] : v \in verts})

\* A variant that appends to both buckets of a category already present.
FoldBoth(pd, c, dx, dy, dz) ==
    IF c \in DOMAIN pd
    THEN [pd EXCEPT ![c] = <<Append(@[1], dx), Append(@[2], dy), Append(@[3], dz),
                              Append(@[4], dx), Append(@[5], dy), Append(@[6], dz)>>]
    ELSE [x \in (DOMAIN pd) \cup {c} |->
            IF x = c THEN <<<<dx>>, <<dy>>, <<dz>>, <<dx>>, <<dy>>, <<dz>>>> ELSE pd[x]]

\* A variant whose first box of a category goes to one bucket only.
FoldNoSeed(pd, c, dx, dy, dz) ==
    LET e == IF c \in DOMAIN pd THEN pd[c] ELSE <<<<>>, <<>>, <<>>, <<>>, <<>>, <<>>>>
        e1 == IF dy > dx
              THEN [e EXCEPT ![4] = Append(@, dx), ![5] = Append(@, dy), ![6] = Append(@, dz)]
              ELSE [e EXCEPT ![1] = Append(@, dx), ![2] = Append(@, dy), ![3] = Append(@, dz)]
    IN  [x \in (DOMAIN pd) \cup {c} |-> IF x = c THEN e1 ELSE pd[x]]

\* The fold of one box into prop_dict.  A category already present
\* gets the box in the bucket of its orientation (lists 1..3 here are lists
\* 0..2 of the code, lists 4..6 are 3..5); a new category gets it in both.
Fold(pd, c, dx, dy, dz) ==
    IF c \in DOMAIN pd
    THEN LET e == pd[c]
             e1 == IF dy > dx
                   THEN [e EXCEPT ![4] = Append(@, dx), ![5] = Append(@, dy),
                                  ![6] = Append(@, dz)]
                   ELSE e
             e2 == IF dx >= dy
                   THEN [e1 EXCEPT ![1] = Append(@, dx), ![2] = Append(@, dy),
                                   ![3] = Append(@, dz)]
                   ELSE e1
         IN  [pd EXCEPT ![c] = e2]
    ELSE [x \in (DOMAIN pd) \cup {c} |->
            IF x = c THEN <<<<dx>>, <<dy>>, <<dz>>, <<dx>>, <<dy>>, <<dz>>>> ELSE pd[x]]

\* The reduction of the six lists of every category to their means.
Means(pd) == [c \in DOMAIN pd |-> [k \in 1..6 |-> Mean(pd[c][k])]]

\* ------------------------------------------------------------- the scans
SegIndexings == [1..NumVerts -> SegIds]

\* What get_MAR can return for the sides of the fitted rectangle.
MARSizes == (1..MaxDim) \X (1..MaxDim)

\* The scans of the batch: every aggregation file of at most MaxGroups groups
\* of one segment each with ascending objectIds, over the segmentations whose
\* first vertex is in segment 1, and the scans with a file missing.
Dataset(zs) ==
    ScanFiles([1..1 -> SegIds], {TRUE}, {si \in SegIndexings : si[1] = 1}, zs) \cup BrokenScans

\* The scans one call of export is explored on: every aggregation file of at
\* most MaxGroups groups of at most MaxSegs segments each, objectIds ascending
\* or descending, over every segmentation, and the scans with a file missing.
ExportScans(zs) ==
    ScanFiles(SegLists(MaxSegs), BOOLEAN, SegIndexings, zs) \cup BrokenScans

\* ------------------------------------------------------------- actions
driver_vars == <<scan, scans_run, stdout>>

loaded_vars == <<id_to_label, object_id_to_segs, label_to_segs, heap, seg_to_verts, num_verts>>

ExportLocalsCleared ==
    /\ id_to_label' = EmptyMap
    /\ object_id_to_segs' = EmptyDict
    /\ label_to_segs' = EmptyDict
    /\ heap' = <<>>
    /\ seg_to_verts' = EmptyMap
    /\ num_verts' = 0
    /\ label_ids' = <<>>
    /\ instance_ids' = <<>>
    /\ obj_idx' = 0
    /\ last_box' = NoBox

\* for scan_name in scan_names: print(scan_name); try: export(...)
StartScan ==
    /\ pc = "idle"
    /\ scans_run < MaxScans
    /\ \E s \in Dataset({[v \in 1..NumVerts |-> (v - 1) % (MaxZ + 1)]}) : scan' = s
    /\ scans_run' = scans_run + 1
    /\ stdout' = Append(stdout, "scan")
    /\ prop_start' = prop_dict
    /\ last_failure' = "none"
    /\ pc' = "load"
    /\ UNCHANGED <<loaded_vars, label_ids, instance_ids, obj_idx, last_box, prop_dict,
                   boxes_log>>

\* A variant that reads a missing file as an empty one.
ExportLoadNoAssert ==
    /\ pc = "load"
    /\ LET agg == read_aggregation(scan.segGroups)
       IN  /\ id_to_label' = get_id_to_label(scan.segGroups)
           /\ object_id_to_segs' = agg.o2s
           /\ label_to_segs' = agg.l2s
           /\ heap' = agg.heap
           /\ seg_to_verts' = read_segmentation(scan.segIndices)
           /\ num_verts' = Len(scan.segIndices)
           /\ pc' = "label"
    /\ UNCHANGED <<driver_vars, label_ids, instance_ids, obj_idx, last_box,
                   prop_dict, prop_start, last_failure, boxes_log>>

\* export, up to read_segmentation: the files are read; a missing file raises
\* (the asserts of get_id_to_label, read_aggregation and read_segmentation, the
\* mesh reader).
ExportLoad ==
    /\ pc = "load"
    /\ IF ~FilesExist(scan)
       THEN /\ pc' = "raised"
            /\ last_failure' = "missing_file"
            /\ UNCHANGED loaded_vars
       ELSE LET agg == read_aggregation(scan.segGroups)
            IN  /\ id_to_label' = get_id_to_label(scan.segGroups)
                /\ object_id_to_segs' = agg.o2s
                /\ label_to_segs' = agg.l2s
                /\ heap' = agg.heap
                /\ seg_to_verts' = read_segmentation(scan.segIndices)
                /\ num_verts' = Len(scan.segIndices)
                /\ pc' = "label"
                /\ UNCHANGED last_failure
    /\ UNCHANGED <<driver_vars, label_ids, instance_ids, obj_idx, last_box,
                   prop_dict, prop_start, boxes_log>>

\* export: the loop over label_to_segs.
LabelStep ==
    /\ pc = "label"
    /\ label_ids' = LabelPass(label_to_segs, heap, seg_to_verts, num_verts)
    /\ pc' = "instance"
    /\ UNCHANGED <<driver_vars, loaded_vars, instance_ids, obj_idx, last_box,
                   prop_dict, prop_start, last_failure, boxes_log>>

\* export: the loop over object_id_to_segs that fills instance_ids.
InstanceStep ==
    /\ pc = "instance"
    /\ instance_ids' = InstancePass(object_id_to_segs, heap, seg_to_verts, label_ids, num_verts)
    /\ obj_idx' = 1
    /\ pc' = "boxes"
    /\ UNCHANGED <<driver_vars, loaded_vars, label_ids, last_box,
                   prop_dict, prop_start, last_failure, boxes_log>>

InBoxLoop == pc = "boxes" /\ obj_idx <= Len(object_id_to_segs.keys)

CurObj == object_id_to_segs.keys[obj_idx]

\* A variant of the test that skips an instance: the category is not looked at.
SkipsNoCategory(obj_id) == ObjVerts(instance_ids, obj_id) = {}

\* if len(obj_pc) == 0: continue ... if modelnet_id == 0: continue
Skips(obj_id) ==
    \/ ObjVerts(instance_ids, obj_id) = {}
    \/ label_map[id_to_label[obj_id]] = 0

\* One iteration of the box loop that ends in a continue.
BoxSkip ==
    /\ InBoxLoop
    /\ Skips(CurObj)
    /\ obj_idx' = obj_idx + 1
    /\ UNCHANGED <<pc, driver_vars, loaded_vars, label_ids, instance_ids, last_box,
                   prop_dict, prop_start, last_failure, boxes_log>>

\* One iteration of the box loop that folds a box into prop_dict; dx and dy
\* are what get_MAR returns for the points of the instance.
BoxFold ==
    /\ InBoxLoop
    /\ ~Skips(CurObj)
    /\ \E size \in MARSizes :
        LET verts == ObjVerts(instance_ids, CurObj)
            modelnet_id == label_map[id_to_label[CurObj]]
            dx == size[1]
            dy == size[2]
            dz == Height(scan.z, verts)
        IN  /\ last_box' = [obj_id |-> CurObj, category |-> modelnet_id,
                            num_point |-> Cardinality(verts),
                            dx |-> dx, dy |-> dy, dz |-> dz]
            /\ prop_dict' = Fold(prop_dict, modelnet_id, dx, dy, dz)
            /\ boxes_log' = Append(boxes_log, [category |-> modelnet_id,
                                               dx |-> dx, dy |-> dy, dz |-> dz])
    /\ obj_idx' = obj_idx + 1
    /\ UNCHANGED <<pc, driver_vars, loaded_vars, label_ids, instance_ids,
                   prop_start, last_failure>>

\* One iteration of the box loop in which the rectangle fit (cv2.minAreaRect
\* in get_MAR) raises before the fold.
BoxRaise ==
    /\ InBoxLoop
    /\ ~Skips(CurObj)
    /\ pc' = "raised"
    /\ last_failure' = "exception"
    /\ UNCHANGED <<driver_vars, loaded_vars, label_ids, instance_ids, obj_idx, last_box,
                   prop_dict, prop_start, boxes_log>>

\* export returns; the driver goes on to the next scan.
ExportReturn ==
    /\ pc = "boxes"
    /\ obj_idx > Len(object_id_to_segs.keys)
    /\ pc' = "idle"
    /\ scan' = NoScan
    /\ prop_start' = prop_dict
    /\ ExportLocalsCleared
    /\ UNCHANGED <<scans_run, stdout, prop_dict, last_failure, boxes_log>>

\* except: print('Failed!'); continue
DriverCatch ==
    /\ pc = "raised"
    /\ stdout' = Append(stdout, "Failed!")
    /\ pc' = "idle"
    /\ scan' = NoScan
    /\ ExportLocalsCleared
    /\ UNCHANGED <<scans_run, prop_dict, prop_start, last_failure, boxes_log>>

\* After the loop: every category's lists are replaced by their means.
Finalize ==
    /\ pc = "idle"
    /\ prop_dict' = Means(prop_dict)
    /\ pc' = "done"
    /\ UNCHANGED <<driver_vars, loaded_vars, label_ids, instance_ids, obj_idx,
                   last_box, prop_start, last_failure, boxes_log>>

\* ------------------------------------------------------------- specifications
LocalsInit ==
    /\ id_to_label = EmptyMap
    /\ object_id_to_segs = EmptyDict
    /\ label_to_segs = EmptyDict
    /\ heap = <<>>
    /\ seg_to_verts = EmptyMap
    /\ num_verts = 0
    /\ label_ids = <<>>
    /\ instance_ids = <<>>
    /\ obj_idx = 0
    /\ last_box = NoBox
    /\ prop_dict = EmptyMap
    /\ prop_start = EmptyMap
    /\ last_failure = "none"
    /\ boxes_log = <<>>

\* The batch: object40_property = {} before the loop over the scans.
Init ==
    /\ pc = "idle"
    /\ scan = NoScan
    /\ scans_run = 0
    /\ stdout = <<>>
    /\ LocalsInit

Next ==
    \/ StartScan
    \/ ExportLoad
    \/ LabelStep
    \/ InstanceStep
    \/ BoxSkip
    \/ BoxFold
    \/ BoxRaise
    \/ ExportReturn
    \/ DriverCatch
    \/ Finalize

Spec == Init /\ [][Next]_vars

\* One call of export on an empty accumulator, up to the per-vertex arrays.
InitExport ==
    /\ pc = "load"
    /\ scan \in ExportScans({[v \in 1..NumVerts |-> 0]})
    /\ scans_run = 1
    /\ stdout = <<"scan">>
    /\ LocalsInit

NextExport ==
    \/ ExportLoad
    \/ LabelStep
    \/ InstanceStep

SpecExport == InitExport /\ [][NextExport]_vars

\* ------------------------------------------------------------- claims: helpers
\* export has built both per-vertex arrays.
ArraysBuilt == pc = "boxes"

Groups == scan.segGroups

\* The list objects as the aggregation file annotates them.
OwnHeap == [i \in DOMAIN Groups |-> Groups[i].segments]

\* The groups that list the segment of vertex v.
Listing(v) == {i \in DOMAIN Groups : scan.segIndices[v] \in Range(Groups[i].segments)}

\* The concatenation of the segment lists of the groups i.. labelled l.
RECURSIVE Merged(_, _)
Merged(l, i) ==
    IF i > Len(Groups) THEN <<>>
    ELSE (IF Groups[i].label = l THEN Groups[i].segments ELSE <<>>) \o Merged(l, i + 1)

\* A segment of group i is present and no later group lists it.
LastToList(i, s) ==
    /\ s \in DOMAIN seg_to_verts
    /\ \A j \in DOMAIN Groups : j > i => s \notin Range(Groups[j].segments)

\* C1: once export has built both arrays, a vertex with a non-zero instance id
\* has a non-zero semantic id.
C1_NoCategoryNoInstance ==
    ArraysBuilt => \A v \in 1..num_verts : instance_ids[v] # 0 => label_ids[v] # 0

\* C1 witness: the arrays are built, one vertex carries an instance, and the
\* segment of another vertex is listed by a group although its semantic id is 0.
C1_Witness ==
    /\ ArraysBuilt
    /\ \E v \in 1..num_verts : instance_ids[v] # 0
    /\ \E w \in 1..num_verts : label_ids[w] = 0 /\ instance_ids[w] = 0 /\ Listing(w) # {}
    /\ \E i, j \in DOMAIN Groups :
          i # j /\ Range(Groups[i].segments) \cap Range(Groups[j].segments) # {}

\* C8 (as claimed): after read_aggregation every object id maps to its own
\* group's segment list and every label to the concatenation of the lists of the
\* groups of that label.
C8_OwnSegmentLists ==
    pc = "label" =>
        /\ \A i \in DOMAIN Groups :
              ListOf(object_id_to_segs, heap, Groups[i].objectId + 1) = Groups[i].segments
        /\ \A l \in Range(label_to_segs.keys) :
              ListOf(label_to_segs, heap, l) = Merged(l, 1)

\* C9 (as claimed): the instance pass decides per instance, on the first
\* gathered vertex: a vertex of the instance that no later group lists is 0 when
\* that first vertex has semantic id 0 and the instance's id otherwise.
C9_PerInstance ==
    ArraysBuilt =>
        \A i \in DOMAIN Groups :
            LET gathered == Gather(Groups[i].segments, 1, seg_to_verts)
            IN  \A s \in Range(Groups[i].segments) :
                    LastToList(i, s) =>
                        \A v \in Range(seg_to_verts[s]) :
                            instance_ids[v] = IF label_ids[gathered[1]] = 0 THEN 0
                                              ELSE Groups[i].objectId + 1

\* C9 (amended): the instance pass decides per segment, on the first vertex of
\* the segment: the vertices of a segment of a group that no later group lists
\* are 0 when that vertex has semantic id 0 and the group's object id otherwise.
C9_PerSegment ==
    ArraysBuilt =>
        \A i \in DOMAIN Groups :
            \A s \in Range(Groups[i].segments) :
                LastToList(i, s) =>
                    \A v \in Range(seg_to_verts[s]) :
                        instance_ids[v] = IF label_ids[seg_to_verts[s][1]] = 0 THEN 0
                                          ELSE Groups[i].objectId + 1

\* C9 witness: a group lists two present segments, the first with semantic id 0
\* and the second not, and the vertices of the second keep the group's id.
C9_Witness ==
    /\ ArraysBuilt
    /\ \E i \in DOMAIN Groups :
          /\ Len(Groups[i].segments) = 2
          /\ Range(Groups[i].segments) \subseteq DOMAIN seg_to_verts
          /\ label_ids[seg_to_verts[Groups[i].segments[1]][1]] = 0
          /\ \A v \in Range(seg_to_verts[Groups[i].segments[2]]) :
                label_ids[v] # 0 /\ instance_ids[v] = Groups[i].objectId + 1

\* C10: the instance array built from the maps of read_aggregation, where the
\* first group of a label shares its list with the label, is the array built
\* from every group's own list: 0 for a vertex with semantic id 0 or one no
\* group lists, else the object id of the last group that lists its segment.
C10_SharedListsHarmless ==
    ArraysBuilt =>
        /\ instance_ids = InstancePass(object_id_to_segs, OwnHeap, seg_to_verts,
                                       label_ids, num_verts)
        /\ \A v \in 1..num_verts :
              instance_ids[v] = IF label_ids[v] = 0 \/ Listing(v) = {} THEN 0
                                ELSE Groups[SetMax(Listing(v))].objectId + 1

\* C10 witness: the list of an object was extended by a later group of its
\* label, and a vertex of a segment it gained that way carries an instance.
C10_Witness ==
    /\ ArraysBuilt
    /\ \E i \in DOMAIN Groups :
          LET shared == ListOf(object_id_to_segs, heap, Groups[i].objectId + 1)
          IN  /\ shared # Groups[i].segments
              /\ \E v \in 1..num_verts :
                    /\ instance_ids[v] # 0
                    /\ scan.segIndices[v] \in Range(shared) \ Range(Groups[i].segments)

\* ------------------------------------------------------------- claims: the batch
\* This step folded a box into the accumulator.
Folded == boxes_log' # boxes_log

FoldedBox == Last(boxes_log')

EmptyLists == <<<<>>, <<>>, <<>>, <<>>, <<>>, <<>>>>

ListsBefore(c) == IF c \in DOMAIN prop_dict THEN prop_dict[c] ELSE EmptyLists

Triple(b) == <<b.dx, b.dy, b.dz>>

\* The bucket starting at list k of the folded box's category received the box.
BucketGot(k) ==
    \A n \in 1..3 :
        prop_dict'[FoldedBox.category][k + n - 1] =
            Append(ListsBefore(FoldedBox.category)[k + n - 1], Triple(FoldedBox)[n])

\* The bucket starting at list k of the folded box's category is as it was.
BucketKept(k) ==
    \A n \in 1..3 :
        prop_dict'[FoldedBox.category][k + n - 1] =
            ListsBefore(FoldedBox.category)[k + n - 1]

OneBucket ==
    /\ FoldedBox.dx >= FoldedBox.dy => BucketGot(1) /\ BucketKept(4)
    /\ FoldedBox.dy > FoldedBox.dx => BucketGot(4) /\ BucketKept(1)

\* C2 (as claimed): every box folded into prop_dict goes to exactly one
\* bucket of its category, the wide one when dx >= dy and the tall one when
\* dy > dx.
C2_ExactlyOneBucket == [][Folded => OneBucket]_vars

\* C2 (amended): a box of a category prop_dict already holds goes to exactly
\* one bucket, the wide one when dx >= dy and the tall one when dy > dx; the
\* first box of a category goes to both buckets.
C2_OneBucketAfterFirst ==
    [][Folded =>
        IF FoldedBox.category \in DOMAIN prop_dict
        THEN OneBucket
        ELSE BucketGot(1) /\ BucketGot(4)]_vars

\* C2 witness: a category holds two boxes, the second in one bucket only.
C2_Witness ==
    /\ pc = "boxes"
    /\ \E c \in DOMAIN prop_dict :
          /\ Len(prop_dict[c][1]) = 2 /\ Len(prop_dict[c][4]) = 1
          /\ last_box.category = c /\ last_box.dx = last_box.dy

\* C3: prop_dict never holds the key 0, and every box folded into it has a
\* category other than 0, belongs to an object id other than 0 with at least
\* one vertex, and has dz >= 0.
C3_SentinelsNeverFolded ==
    /\ 0 \notin DOMAIN prop_dict
    /\ \A k \in DOMAIN boxes_log : boxes_log[k].category # 0 /\ boxes_log[k].dz >= 0
    /\ last_box # NoBox =>
          /\ last_box.obj_id # 0
          /\ last_box.category # 0
          /\ last_box.category = label_map[id_to_label[last_box.obj_id]]
          /\ last_box.num_point >= 1
          /\ last_box.num_point = Cardinality(ObjVerts(instance_ids, last_box.obj_id))
          /\ last_box.dz >= 0

\* C3 witness: the box loop has passed an instance that has vertices and an
\* unmapped category, and the accumulator holds boxes.
C3_Witness ==
    /\ pc = "boxes"
    /\ boxes_log # <<>>
    /\ \E k \in 1..(obj_idx - 1) :
          LET o == object_id_to_segs.keys[k]
          IN  ObjVerts(instance_ids, o) # {} /\ label_map[id_to_label[o]] = 0

\* The values of field f of the boxes of category c that bucket (wide or
\* tall) was meant to hold, with the first box of the category when seeded.
RECURSIVE Kept(_, _, _, _, _, _)
Kept(c, f, wide, seeded, k, seen) ==
    IF k > Len(boxes_log) THEN <<>>
    ELSE LET b == boxes_log[k]
             mine == b.category = c
             fits == IF wide THEN b.dx >= b.dy ELSE b.dy > b.dx
         IN  (IF mine /\ (fits \/ (seeded /\ ~seen)) THEN <<b[f]>> ELSE <<>>)
                \o Kept(c, f, wide, seeded, k + 1, seen \/ mine)

TableOf(seeded) ==
    [c \in {boxes_log[k].category : k \in DOMAIN boxes_log} |->
        <<Mean(Kept(c, "dx", TRUE, seeded, 1, FALSE)),
          Mean(Kept(c, "dy", TRUE, seeded, 1, FALSE)),
          Mean(Kept(c, "dz", TRUE, seeded, 1, FALSE)),
          Mean(Kept(c, "dx", FALSE, seeded, 1, FALSE)),
          Mean(Kept(c, "dy", FALSE, seeded, 1, FALSE)),
          Mean(Kept(c, "dz", FALSE, seeded, 1, FALSE))>>]

\* C4 (as claimed): the final table holds, per category, the means of dx, dy,
\* dz over exactly its boxes with dx >= dy and over exactly its boxes with
\* dy > dx.
C4_MeansPerOrientation == pc = "done" => prop_dict = TableOf(FALSE)

\* C4 (amended): the final table holds, per category, the means of dx, dy, dz
\* over its folded boxes with dx >= dy and over its folded boxes with dy > dx,
\* the first box folded for the category counted on both sides.
C4_MeansWithFirstBox == pc = "done" => prop_dict = TableOf(TRUE)

\* C4 witness: two scans gave one category wide boxes with dx = 1 and dx = 2
\* (mean 3/2), and the table holds a second category.
C4_Witness ==
    /\ pc = "done"
    /\ scans_run = 2
    /\ stdout = <<"scan", "scan">>
    /\ Len(boxes_log) = 3
    /\ \E c, d \in DOMAIN prop_dict : c # d /\ prop_dict[c][1] = <<3, 2>>

\* C5: a scan with a missing file raises before export reads anything else, the
\* accumulator stays as it was when the scan started, and the driver prints
\* the failure notice and is back at the head of its loop.
C5_MissingFileSkipsScan ==
    /\ (scan # NoScan /\ ~FilesExist(scan)) =>
          pc \in {"load", "raised"} /\ prop_dict = prop_start
    /\ (pc = "raised" /\ ~FilesExist(scan)) => last_failure = "missing_file"
    /\ (pc \in {"raised", "idle"} /\ last_failure = "missing_file") =>
          prop_dict = prop_start
    /\ (pc = "idle" /\ last_failure = "missing_file") =>
          Last(stdout) = "Failed!"

\* C5 witness: a scan folded boxes, the next one had a file missing, and the
\* driver is back at the head of its loop with the accumulator of the first.
C5_Witness ==
    /\ pc = "idle"
    /\ last_failure = "missing_file"
    /\ scans_run = 2
    /\ stdout = <<"scan", "scan", "Failed!">>
    /\ prop_dict # EmptyMap

\* C6 (as claimed): when export of a scan raises, the accumulator is as it
\* was when the scan started.
C6_FailureLeavesAccumulator ==
    (pc = "raised" \/ (pc = "idle" /\ last_failure # "none")) => prop_dict = prop_start

\* The aggregation file with the segments of group i not listed.
Without(i) == [Groups EXCEPT ![i].segments = <<>>]

\* Group i lists segments, none of which the segmentation holds.
OnlyMissing(i) ==
    /\ Groups[i].segments # <<>>
    /\ Range(Groups[i].segments) \cap DOMAIN seg_to_verts = {}

\* C7: a group that lists only segments the segmentation does not hold gets no
\* vertex and no box, and both arrays are what the file without these
\* segments gives.
C7_MissingSegmentsSkipped ==
    pc = "boxes" =>
        \A i \in DOMAIN Groups :
            OnlyMissing(i) =>
                LET agg == read_aggregation(Without(i))
                    lab == LabelPass(agg.l2s, agg.heap, seg_to_verts, num_verts)
                IN  /\ ObjVerts(instance_ids, Groups[i].objectId + 1) = {}
                    /\ last_box.obj_id # Groups[i].objectId + 1
                    /\ label_ids = lab
                    /\ instance_ids = InstancePass(agg.o2s, agg.heap, seg_to_verts,
                                                   lab, num_verts)

\* C7 witness: the box loop is over for a scan in which one group lists only
\* a missing segment and another group of its label gave a box.
C7_Witness ==
    /\ pc = "boxes"
    /\ obj_idx > Len(object_id_to_segs.keys)
    /\ last_box # NoBox
    /\ \E i, j \in DOMAIN Groups :
          /\ i < j
          /\ OnlyMissing(i)
          /\ Groups[j].label = Groups[i].label
          /\ last_box.obj_id = Groups[j].objectId + 1

====
